---- MODULE Spec2Model ----
(***************************************************************************)
(* A model of crop_data_download.py: the per-county export of cropland     *)
(* observations from the KWG endpoint.  Strings are sequences of           *)
(* one-character strings, so that the normalisers (safe_filename,          *)
(* extract_fips_from_iri) and the HTML sniff are computed character by     *)
(* character, as the Python code computes them.                            *)
(***************************************************************************)
EXTENDS Integers, Sequences, FiniteSets, TLC

VARIABLES
    mode,       \* "sweep" (main()) or "single" (the len(sys.argv) == 2 branch)
    argv1,      \* sys.argv[1] in single mode, <<>> in a sweep
    pc,         \* the position of the process
    bindings,   \* data["results"]["bindings"] as the service returned it
    counties,   \* the list get_maine_counties() returned
    i,          \* the loop index of main() (1-based), or the index of match[0]
    ttl_text,   \* the text run_construct returned for the current county
    files,      \* the output directory: file name -> content
    written,    \* every completed write_text call, in order
    log,        \* the remote calls, skips and pauses of the run, in order
    inflight,   \* the number of HTTP requests sent and not yet answered
    exitStatus, \* the exit status of the process, -1 while it runs
    fn_pc,      \* the position of the pure-function harness
    fn_in,      \* the argument given to the function under check
    fn_out,     \* its result
    fn_out2     \* the result of applying it to its own result

vars == <<mode, argv1, pc, bindings, counties, i, ttl_text, files, written,
          log, inflight, exitStatus, fn_pc, fn_in, fn_out, fn_out2>>

driverVars == <<mode, argv1, pc, bindings, counties, i, ttl_text, files,
                written, log, inflight, exitStatus>>

fnVars == <<fn_pc, fn_in, fn_out, fn_out2>>

-----------------------------------------------------------------------------
(* Bounds of the model.                                                    *)

\* the longest list of bindings the service returns
MaxCounties == 2

\* the longest label given to safe_filename in SpecSlug
MaxLen == 3

\* the most pieces an identifier given to extract_fips_from_iri is made of
MaxParts == 3

-----------------------------------------------------------------------------
(* Characters and strings.                                                 *)

UpperChars == <<"A", "B", "C", "D", "E", "F", "G", "H", "I", "J", "K", "L", "M",
                "N", "O", "P", "Q", "R", "S", "T", "U", "V", "W", "X", "Y", "Z">>

LowerChars == <<"a", "b", "c", "d", "e", "f", "g", "h", "i", "j", "k", "l", "m",
                "n", "o", "p", "q", "r", "s", "t", "u", "v", "w", "x", "y", "z">>

DigitChars == <<"0", "1", "2", "3", "4", "5", "6", "7", "8", "9">>

Range(s) == {s[k] : k \in 1..Len(s)}

\* str.lower() on one ASCII character
LowerOf ==
    [c \in Range(UpperChars) |->
        LowerChars[CHOOSE k \in 1..Len(UpperChars) : UpperChars[k] = c]]

LowerChar(c) == IF c \in DOMAIN LowerOf THEN LowerOf[c] ELSE c

\* str.lower()
LowerStr(s) == [k \in 1..Len(s) |-> LowerChar(s[k])]

\* the characters str.strip() and str.lstrip() remove
IsSpace(c) == c \in {" ", "\t", "\n", "\r"}

\* the class \d of the regular expressions
DigitSet == Range(DigitChars)

IsDigit(c) == c \in DigitSet

\* the class [a-z0-9]
LowerAlnumSet == Range(LowerChars) \cup Range(DigitChars)

IsLowerAlnum(c) == c \in LowerAlnumSet

\* str.lstrip()
RECURSIVE LStrip(_)
LStrip(s) ==
    IF s # <<>> /\ IsSpace(Head(s)) THEN LStrip(Tail(s)) ELSE s

\* str.rstrip()
RECURSIVE RStrip(_)
RStrip(s) ==
    IF s # <<>> /\ IsSpace(s[Len(s)]) THEN RStrip(SubSeq(s, 1, Len(s) - 1)) ELSE s

\* str.strip()
Strip(s) == RStrip(LStrip(s))

\* str.strip(ch) for a single character ch
RECURSIVE StripChar(_, _)
StripChar(s, ch) ==
    IF s # <<>> /\ Head(s) = ch THEN StripChar(Tail(s), ch)
    ELSE IF s # <<>> /\ s[Len(s)] = ch THEN StripChar(SubSeq(s, 1, Len(s) - 1), ch)
    ELSE s

\* str.startswith(p)
StartsWith(s, p) == Len(s) >= Len(p) /\ SubSeq(s, 1, Len(p)) = p

\* str.endswith(p)
EndsWith(s, p) == Len(s) >= Len(p) /\ SubSeq(s, Len(s) - Len(p) + 1, Len(s)) = p

\* p in s
Contains(s, p) ==
    \E k \in 1..(Len(s) - Len(p) + 1) :
        s[k] = p[1] /\ SubSeq(s, k, k + Len(p) - 1) = p

\* s[:n]
Prefix(s, n) == SubSeq(s, 1, IF Len(s) < n THEN Len(s) ELSE n)

-----------------------------------------------------------------------------
(* safe_filename                                                           *)

UnknownCounty == <<"u", "n", "k", "n", "o", "w", "n", "_", "c", "o", "u", "n", "t", "y">>

\* s.replace("&", "and")
RECURSIVE ReplaceAmp(_)
ReplaceAmp(s) ==
    IF s = <<>> THEN <<>>
    ELSE IF Head(s) = "&" THEN <<"a", "n", "d">> \o ReplaceAmp(Tail(s))
    ELSE <<Head(s)>> \o ReplaceAmp(Tail(s))

\* re.sub(r"[^a-z0-9]+", "_", s): inRun says that the character before s
\* was outside [a-z0-9], so that the "_" of its run is already written
RECURSIVE SubNonAlnum(_, _)
SubNonAlnum(s, inRun) ==
    IF s = <<>> THEN <<>>
    ELSE IF IsLowerAlnum(Head(s)) THEN <<Head(s)>> \o SubNonAlnum(Tail(s), FALSE)
    ELSE IF inRun THEN SubNonAlnum(Tail(s), TRUE)
    ELSE <<"_">> \o SubNonAlnum(Tail(s), TRUE)

\* re.sub(r"_+", "_", s)
RECURSIVE SubUnderscores(_, _)
SubUnderscores(s, inRun) ==
    IF s = <<>> THEN <<>>
    ELSE IF Head(s) # "_" THEN <<Head(s)>> \o SubUnderscores(Tail(s), FALSE)
    ELSE IF inRun THEN SubUnderscores(Tail(s), TRUE)
    ELSE <<"_">> \o SubUnderscores(Tail(s), TRUE)

\* safe_filename with the final .strip("_") left out
safe_filename_nostrip(s) ==
    LET s1 == LowerStr(Strip(s))
        s2 == ReplaceAmp(s1)
        s3 == SubNonAlnum(s2, FALSE)
        s4 == SubUnderscores(s3, FALSE)
    IN  IF s4 = <<>> THEN UnknownCounty ELSE s4

safe_filename(s) ==
    LET s1 == LowerStr(Strip(s))
        s2 == ReplaceAmp(s1)
        s3 == SubNonAlnum(s2, FALSE)
        s4 == StripChar(SubUnderscores(s3, FALSE), "_")
    IN  IF s4 = <<>> THEN UnknownCounty ELSE s4

-----------------------------------------------------------------------------
(* extract_fips_from_iri                                                   *)

RegionLiteral == <<"a", "d", "m", "i", "n", "i", "s", "t", "r", "a", "t", "i", "v", "e",
                   "R", "e", "g", "i", "o", "n", ".", "U", "S", "A", ".">>

UnknownFips == <<"u", "n", "k", "n", "o", "w", "n">>

\* the end of the greedy run \d+ that starts at position p of s (p - 1 if none)
RECURSIVE DigitRunEnd(_, _)
DigitRunEnd(s, p) ==
    IF p <= Len(s) /\ IsDigit(s[p]) THEN DigitRunEnd(s, p + 1) ELSE p - 1

\* the position just after the run is one where "$" matches: the end of the
\* string, or the newline that ends the string
DollarAt(s, p) == p = Len(s) + 1 \/ (p = Len(s) /\ s[p] = "\n")

\* the pattern administrativeRegion\.USA\.(\d+)$ matches s starting at p
MatchAt(s, p) ==
    /\ p + Len(RegionLiteral) - 1 <= Len(s)
    /\ SubSeq(s, p, p + Len(RegionLiteral) - 1) = RegionLiteral
    /\ DigitRunEnd(s, p + Len(RegionLiteral)) >= p + Len(RegionLiteral)
    /\ DollarAt(s, DigitRunEnd(s, p + Len(RegionLiteral)) + 1)

\* re.search returns the leftmost match; m.group(1) is its digit run
extract_fips_from_iri(county_iri) ==
    LET hits == {p \in 1..Len(county_iri) : MatchAt(county_iri, p)}
    IN  IF hits = {} THEN UnknownFips
        ELSE LET p == CHOOSE q \in hits : \A r \in hits : q <= r
             IN  SubSeq(county_iri, p + Len(RegionLiteral),
                        DigitRunEnd(county_iri, p + Len(RegionLiteral)))

-----------------------------------------------------------------------------
(* What the remote service and the command line can hand to the program.   *)

IriA == <<"k", "w", "g", "r", ":", "a", "d", "m", "i", "n", "i", "s", "t", "r", "a", "t", "i", "v", "e", "R", "e", "g", "i", "o", "n", ".", "U", "S", "A", ".", "2", "3", "0", "0", "1">>

IriB == <<"k", "w", "g", "r", ":", "a", "d", "m", "i", "n", "i", "s", "t", "r", "a", "t", "i", "v", "e", "R", "e", "g", "i", "o", "n", ".", "U", "S", "A", ".", "2", "3", "0", "0", "3">>

\* an identifier the FILTER of the selection query lets through and the
\* pattern of extract_fips_from_iri does not match
IriC == <<"k", "w", "g", "r", ":", "a", "d", "m", "i", "n", "i", "s", "t", "r", "a", "t", "i", "v", "e", "R", "e", "g", "i", "o", "n", ".", "U", "S", "A", ".", "2", "3", "0", "0", "1", "_", "x">>

LabelA == <<"A", "n", "d", "r", "o", "s", "c", "o", "g", "g", "i", "n", " ", "C", "o", "u", "n", "t", "y", ",", " ", "M", "a", "i", "n", "e">>

LabelB == <<"A", "r", "o", "o", "s", "t", "o", "o", "k", " ", "C", "o", "u", "n", "t", "y", ",", " ", "M", "a", "i", "n", "e">>

\* a second label of the county IriA, with the same slug as LabelA
LabelA2 == <<"A", "N", "D", "R", "O", "S", "C", "O", "G", "G", "I", "N", " ", "c", "o", "u", "n", "t", "y", " ", " ", "(", "M", "a", "i", "n", "e", ")">>

Binding(iri, lbl) == [county |-> iri, label |-> lbl]

BindingUniverse ==
    {Binding(IriA, LabelA), Binding(IriB, LabelB), Binding(IriA, LabelA2),
     Binding(IriC, <<" ">>)}

RECURSIVE SeqsUpTo(_, _)
SeqsUpTo(S, n) ==
    IF n = 0 THEN {<<>>}
    ELSE LET shorter == SeqsUpTo(S, n - 1)
         IN  shorter \cup {Append(s, x) : s \in {t \in shorter : Len(t) = n - 1}, x \in S}

\* the service is outside the program: it may answer with any rows, in any order
BindingLists == SeqsUpTo(BindingUniverse, MaxCounties)

Pad(n) == [k \in 1..n |-> "#"]

TurtleDoc == <<"@", "p", "r", "e", "f", "i", "x", " ", "a", ":", " ", "<", "b", ">", " ", ".">>

DoctypeDoc == <<" ", "\n", "<", "!", "D", "O", "C", "T", "Y", "P", "E", " ", "H", "T", "M", "L", ">">>

HtmlDoc == <<"<", "H", "t", "M", "l", ">">>

\* the text sniffed for "<html": ttl_text[:200]
SniffWindow == 200

\* "<html" ends exactly at the last character of the sniffed window
HtmlInsideDoc == Pad(SniffWindow - 5) \o <<"<", "h", "t", "m", "l", ">">>

\* "<html" starts inside the sniffed window and ends after it
HtmlAcrossDoc == Pad(SniffWindow - 4) \o <<"<", "h", "t", "m", "l", ">">>

Bodies == {TurtleDoc, DoctypeDoc, HtmlDoc, HtmlInsideDoc, HtmlAcrossDoc}

ArgvInputs == {<<"2", "3", "0", "0", "1">>, <<" ", "2", "3", "0", "0", "1">>, <<"2", "3">>, <<"u", "n", "k", "n", "o", "w", "n">>}

-----------------------------------------------------------------------------
(* The pieces of the driver.                                               *)

FnPrefix == <<"c", "r", "o", "p", "l", "a", "n", "d", "_">>

FnExt == <<".", "t", "t", "l">>

\* the name built with the code left out
FileNameNoFips(label, fips) == FnPrefix \o safe_filename(label) \o FnExt

\* f"cropland_{safe_filename(label)}_{fips}.ttl"
FileName(label, fips) == FnPrefix \o safe_filename(label) \o <<"_">> \o fips \o FnExt

\* the bindings with a row already seen left out
RECURSIVE ParseBindingsDistinct(_)
ParseBindingsDistinct(bs) ==
    IF bs = <<>> THEN <<>>
    ELSE LET front == ParseBindingsDistinct(SubSeq(bs, 1, Len(bs) - 1))
             row == <<bs[Len(bs)].county, bs[Len(bs)].label>>
         IN  IF \E k \in 1..Len(front) : front[k] = row THEN front
             ELSE Append(front, row)

\* the loop of get_maine_counties: one (county_iri, label) pair per binding,
\* appended in the order of the bindings
RECURSIVE ParseBindings(_)
ParseBindings(bs) ==
    IF bs = <<>> THEN <<>>
    ELSE Append(ParseBindings(SubSeq(bs, 1, Len(bs) - 1)),
                <<bs[Len(bs)].county, bs[Len(bs)].label>>)

\* the check of main() on the text run_construct returned
LooksLikeHTML(text) ==
    \/ StartsWith(LowerStr(LStrip(text)),
                  <<"<", "!", "d", "o", "c", "t", "y", "p", "e", " ", "h", "t", "m", "l">>)
    \/ Contains(LowerStr(Prefix(text, SniffWindow)), <<"<", "h", "t", "m", "l">>)

\* target_fips = sys.argv[1].strip()
TargetFips(arg) == Strip(arg)

\* the comprehension with startswith in the place of ==
MatchIndexesPrefix(cs, target_fips) ==
    {k \in 1..Len(cs) : StartsWith(extract_fips_from_iri(cs[k][1]), target_fips)}

\* the positions in counties of the pairs the comprehension of the
\* single-county branch keeps
MatchIndexes(cs, target_fips) ==
    {k \in 1..Len(cs) : extract_fips_from_iri(cs[k][1]) = target_fips}

\* match[0]
FirstMatch(cs, target_fips) ==
    CHOOSE k \in MatchIndexes(cs, target_fips) :
        \A m \in MatchIndexes(cs, target_fips) : k <= m

\* Path.write_text: the file is created or replaced
WriteFile(fs, name, text) ==
    [n \in DOMAIN fs \cup {name} |-> IF n = name THEN text ELSE fs[n]]

Event(e, k) == [ev |-> e, k |-> k, text |-> <<>>]

Returned(k, text) == [ev |-> "construct_return", k |-> k, text |-> text]

NoFiles == [n \in {} |-> <<>>]

-----------------------------------------------------------------------------
(* The program.                                                            *)

Init ==
    /\ mode \in {"sweep", "single"}
    /\ argv1 \in (IF mode = "single" THEN ArgvInputs ELSE {<<>>})
    /\ pc = "start"
    /\ bindings = <<>>
    /\ counties = <<>>
    /\ i = 0
    /\ ttl_text = <<>>
    /\ files = NoFiles
    /\ written = <<>>
    /\ log = <<>>
    /\ inflight = 0
    /\ exitStatus = -1
    /\ fn_pc = "off"
    /\ fn_in = <<>>
    /\ fn_out = <<>>
    /\ fn_out2 = <<>>

\* run_select posts the selection query
RunSelectSend ==
    /\ pc = "start"
    /\ pc' = "select_wait"
    /\ inflight' = inflight + 1
    /\ log' = Append(log, Event("select_send", 0))
    /\ UNCHANGED <<mode, argv1, bindings, counties, i, ttl_text, files, written,
                   exitStatus, fnVars>>

\* the post or raise_for_status raises: neither entry mode catches it
RunSelectRaises ==
    /\ pc = "select_wait"
    /\ pc' = "crashed"
    /\ exitStatus' = 1
    /\ inflight' = inflight - 1
    /\ log' = Append(log, Event("select_raise", 0))
    /\ UNCHANGED <<mode, argv1, bindings, counties, i, ttl_text, files, written, fnVars>>

\* run_select returns and get_maine_counties builds its list
GetMaineCountiesReturn ==
    /\ pc = "select_wait"
    /\ \E bs \in BindingLists :
          /\ bindings' = bs
          /\ counties' = ParseBindings(bs)
    /\ inflight' = inflight - 1
    /\ log' = Append(log, Event("select_return", 0))
    /\ i' = 1
    /\ pc' = IF mode = "sweep" THEN "loop" ELSE "match"
    /\ UNCHANGED <<mode, argv1, ttl_text, files, written, exitStatus, fnVars>>

\* main(): the for loop is exhausted
SweepDone ==
    /\ pc = "loop"
    /\ i > Len(counties)
    /\ pc' = "done"
    /\ exitStatus' = 0
    /\ UNCHANGED <<mode, argv1, bindings, counties, i, ttl_text, files, written, log,
                   inflight, fnVars>>

\* main(): the next pair is taken and run_construct posts its query
RunConstructSend ==
    /\ pc = "loop"
    /\ i <= Len(counties)
    /\ pc' = "construct_wait"
    /\ inflight' = inflight + 1
    /\ log' = Append(log, Event("construct_send", i))
    /\ UNCHANGED <<mode, argv1, bindings, counties, i, ttl_text, files, written,
                   exitStatus, fnVars>>

\* the HTTPError left uncaught
ConstructHTTPErrorFatal ==
    /\ pc = "construct_wait"
    /\ pc' = "crashed"
    /\ exitStatus' = 1
    /\ inflight' = inflight - 1
    /\ log' = Append(log, Event("http_error", i))
    /\ UNCHANGED <<mode, argv1, bindings, counties, i, ttl_text, files, written, fnVars>>

\* the handler with the same county asked again
ConstructHTTPErrorRetry ==
    /\ pc = "construct_wait"
    /\ pc' = "loop"
    /\ inflight' = inflight - 1
    /\ log' = Append(log, Event("http_error", i))
    /\ UNCHANGED <<mode, argv1, bindings, counties, i, ttl_text, files, written,
                   exitStatus, fnVars>>

\* main(): except requests.HTTPError ... continue
ConstructHTTPError ==
    /\ pc = "construct_wait"
    /\ pc' = "loop"
    /\ i' = i + 1
    /\ inflight' = inflight - 1
    /\ log' = Append(log, Event("http_error", i))
    /\ UNCHANGED <<mode, argv1, bindings, counties, ttl_text, files, written,
                   exitStatus, fnVars>>

\* main(): except Exception ... continue
ConstructOtherError ==
    /\ pc = "construct_wait"
    /\ pc' = "loop"
    /\ i' = i + 1
    /\ inflight' = inflight - 1
    /\ log' = Append(log, Event("exception", i))
    /\ UNCHANGED <<mode, argv1, bindings, counties, ttl_text, files, written,
                   exitStatus, fnVars>>

\* main(): run_construct returns and the text is sniffed
ConstructReturn ==
    /\ pc = "construct_wait"
    /\ \E body \in Bodies :
          /\ ttl_text' = body
          /\ IF LooksLikeHTML(body)
             THEN /\ log' = log \o <<Returned(i, body), Event("html_skip", i)>>
                  /\ i' = i + 1
                  /\ pc' = "loop"
             ELSE /\ log' = Append(log, Returned(i, body))
                  /\ i' = i
                  /\ pc' = "write"
    /\ inflight' = inflight - 1
    /\ UNCHANGED <<mode, argv1, bindings, counties, files, written, exitStatus, fnVars>>

\* main(): out_path.write_text(ttl_text)
WriteText ==
    /\ pc = "write"
    /\ LET name == FileName(counties[i][2], extract_fips_from_iri(counties[i][1]))
       IN  /\ files' = WriteFile(files, name, ttl_text)
           /\ written' = Append(written, [k |-> i, name |-> name, text |-> ttl_text])
    /\ log' = Append(log, Event("write", i))
    /\ pc' = "stat"
    /\ UNCHANGED <<mode, argv1, bindings, counties, i, ttl_text, inflight,
                   exitStatus, fnVars>>

\* main(): write_text raises OSError outside the try, either before the file
\* is opened or after "w" has emptied it
WriteTextRaises ==
    /\ pc = "write"
    /\ LET name == FileName(counties[i][2], extract_fips_from_iri(counties[i][1]))
       IN  files' \in {files, WriteFile(files, name, <<>>)}
    /\ log' = Append(log, Event("fs_error", i))
    /\ pc' = "crashed"
    /\ exitStatus' = 1
    /\ UNCHANGED <<mode, argv1, bindings, counties, i, ttl_text, written, inflight, fnVars>>

\* main(): out_path.stat() answers and the size is printed
StatOk ==
    /\ pc = "stat"
    /\ pc' = "sleep"
    /\ UNCHANGED <<mode, argv1, bindings, counties, i, ttl_text, files, written, log,
                   inflight, exitStatus, fnVars>>

\* main(): out_path.stat() raises OSError outside the try
StatRaises ==
    /\ pc = "stat"
    /\ log' = Append(log, Event("fs_error", i))
    /\ pc' = "crashed"
    /\ exitStatus' = 1
    /\ UNCHANGED <<mode, argv1, bindings, counties, i, ttl_text, files, written,
                   inflight, fnVars>>

\* main(): time.sleep(0.3), the last statement of the loop body
Sleep ==
    /\ pc = "sleep"
    /\ log' = Append(log, Event("sleep", i))
    /\ i' = i + 1
    /\ pc' = "loop"
    /\ UNCHANGED <<mode, argv1, bindings, counties, ttl_text, files, written,
                   inflight, exitStatus, fnVars>>

\* single-county branch: if not match: ... sys.exit(1)
SingleNoMatch ==
    /\ pc = "match"
    /\ MatchIndexes(counties, TargetFips(argv1)) = {}
    /\ pc' = "exited"
    /\ exitStatus' = 1
    /\ log' = Append(log, Event("no_match", 0))
    /\ UNCHANGED <<mode, argv1, bindings, counties, i, ttl_text, files, written,
                   inflight, fnVars>>

\* single-county branch: match[0] is taken and run_construct posts its query
SingleConstructSend ==
    /\ pc = "match"
    /\ MatchIndexes(counties, TargetFips(argv1)) # {}
    /\ i' = FirstMatch(counties, TargetFips(argv1))
    /\ pc' = "single_wait"
    /\ inflight' = inflight + 1
    /\ log' = Append(log, Event("construct_send", i'))
    /\ UNCHANGED <<mode, argv1, bindings, counties, ttl_text, files, written,
                   exitStatus, fnVars>>

\* single-county branch: run_construct raises, and nothing catches it
SingleConstructRaises ==
    /\ pc = "single_wait"
    /\ \E e \in {"http_error", "exception"} : log' = Append(log, Event(e, i))
    /\ inflight' = inflight - 1
    /\ pc' = "crashed"
    /\ exitStatus' = 1
    /\ UNCHANGED <<mode, argv1, bindings, counties, i, ttl_text, files, written, fnVars>>

\* single-county branch: run_construct returns; the text is not sniffed
SingleConstructReturn ==
    /\ pc = "single_wait"
    /\ \E body \in Bodies :
          /\ ttl_text' = body
          /\ log' = Append(log, Returned(i, body))
    /\ inflight' = inflight - 1
    /\ pc' = "single_write"
    /\ UNCHANGED <<mode, argv1, bindings, counties, i, files, written, exitStatus, fnVars>>

\* single-county branch: out_path.write_text(ttl_text), then the end of the script
SingleWriteText ==
    /\ pc = "single_write"
    /\ LET name == FileName(counties[i][2], TargetFips(argv1))
       IN  /\ files' = WriteFile(files, name, ttl_text)
           /\ written' = Append(written, [k |-> i, name |-> name, text |-> ttl_text])
    /\ log' = Append(log, Event("write", i))
    /\ pc' = "done"
    /\ exitStatus' = 0
    /\ UNCHANGED <<mode, argv1, bindings, counties, i, ttl_text, inflight, fnVars>>

\* single-county branch: write_text raises OSError
SingleWriteRaises ==
    /\ pc = "single_write"
    /\ LET name == FileName(counties[i][2], TargetFips(argv1))
       IN  files' \in {files, WriteFile(files, name, <<>>)}
    /\ log' = Append(log, Event("fs_error", i))
    /\ pc' = "crashed"
    /\ exitStatus' = 1
    /\ UNCHANGED <<mode, argv1, bindings, counties, i, ttl_text, written, inflight, fnVars>>

Next ==
    \/ RunSelectSend
    \/ RunSelectRaises
    \/ GetMaineCountiesReturn
    \/ SweepDone
    \/ RunConstructSend
    \/ ConstructHTTPError
    \/ ConstructOtherError
    \/ ConstructReturn
    \/ WriteText
    \/ WriteTextRaises
    \/ StatOk
    \/ StatRaises
    \/ Sleep
    \/ SingleNoMatch
    \/ SingleConstructSend
    \/ SingleConstructRaises
    \/ SingleConstructReturn
    \/ SingleWriteText
    \/ SingleWriteRaises

Spec == Init /\ [][Next]_vars

-----------------------------------------------------------------------------
(* The normalisers on their own: each is applied to every input of a       *)
(* bounded set.                                                            *)

SlugAlphabet == {"a", "B", "7", "&", "_", " ", "-"}

LabelInputs == SeqsUpTo(SlugAlphabet, MaxLen)

\* the literal with its last "." replaced: "\." matches a dot only
NearLiteral == SubSeq(RegionLiteral, 1, Len(RegionLiteral) - 1) \o <<"_">>

IriParts == {RegionLiteral, NearLiteral, <<"2">>, <<"7">>, <<"x">>, <<"\n">>, <<"k", ":">>}

RECURSIVE Flatten(_)
Flatten(ps) == IF ps = <<>> THEN <<>> ELSE Head(ps) \o Flatten(Tail(ps))

IriInputs == {Flatten(ps) : ps \in SeqsUpTo(IriParts, MaxParts)}

DriverOff ==
    /\ mode = "sweep"
    /\ argv1 = <<>>
    /\ pc = "off"
    /\ bindings = <<>>
    /\ counties = <<>>
    /\ i = 0
    /\ ttl_text = <<>>
    /\ files = NoFiles
    /\ written = <<>>
    /\ log = <<>>
    /\ inflight = 0
    /\ exitStatus = -1

InitSlug ==
    /\ DriverOff
    /\ fn_pc = "slug_in"
    /\ fn_in \in LabelInputs
    /\ fn_out = <<>>
    /\ fn_out2 = <<>>

\* safe_filename(label)
SlugApply ==
    /\ fn_pc = "slug_in"
    /\ fn_out' = safe_filename(fn_in)
    /\ fn_pc' = "slug_once"
    /\ UNCHANGED <<fn_in, fn_out2, driverVars>>

\* safe_filename(safe_filename(label))
SlugReapply ==
    /\ fn_pc = "slug_once"
    /\ fn_out2' = safe_filename(fn_out)
    /\ fn_pc' = "slug_twice"
    /\ UNCHANGED <<fn_in, fn_out, driverVars>>

NextSlug == SlugApply \/ SlugReapply

SpecSlug == InitSlug /\ [][NextSlug]_vars

InitFips ==
    /\ DriverOff
    /\ fn_pc = "fips_in"
    /\ fn_in \in IriInputs
    /\ fn_out = <<>>
    /\ fn_out2 = <<>>

\* extract_fips_from_iri(county_iri)
FipsApply ==
    /\ fn_pc = "fips_in"
    /\ fn_out' = extract_fips_from_iri(fn_in)
    /\ fn_pc' = "fips_done"
    /\ UNCHANGED <<fn_in, fn_out2, driverVars>>

NextFips == FipsApply

SpecFips == InitFips /\ [][NextFips]_vars

-----------------------------------------------------------------------------
(* What the claims speak of, read off the run.                             *)

Events(e) == {n \in 1..Len(log) : log[n].ev = e}

Enumerated == Events("select_return") # {}

IsConstructSend(e) == e.ev = "construct_send"

Sends == SelectSeq(log, IsConstructSend)

HttpFailed(k) == \E n \in Events("http_error") : log[n].k = k

WrittenBy(k) == {n \in 1..Len(written) : written[n].k = k}

SameIgnoringCase(a, b) ==
    Len(a) = Len(b) /\ \A k \in 1..Len(a) : LowerChar(a[k]) = LowerChar(b[k])

\* a body that starts, after its leading whitespace, with "<!doctype html" in
\* any letter case, or whose first 200 characters contain "<html" in any case
HtmlShaped(text) ==
    \/ LET t == LStrip(text)
       IN  Len(t) >= 14
           /\ SameIgnoringCase(SubSeq(t, 1, 14),
                  <<"<", "!", "d", "o", "c", "t", "y", "p", "e", " ", "h", "t", "m", "l">>)
    \/ \E p \in 1..196 :
          /\ p + 4 <= Len(text)
          /\ text[p] = "<"
          /\ SameIgnoringCase(SubSeq(text, p, p + 4), <<"<", "h", "t", "m", "l">>)

\* the document the service returned for the k-th county
ReturnedText(k) ==
    log[CHOOSE n \in Events("construct_return") : log[n].k = k].text

\* the counties whose extraction returned a document that is not HTML-shaped
AcceptedSet ==
    {k \in 1..Len(counties) :
        \E n \in Events("construct_return") : log[n].k = k /\ ~HtmlShaped(log[n].text)}

\* 'cropland_' + safe_filename(label) + '_' + extract_fips_from_iri(iri) + '.ttl'
ClaimedName(k) ==
    <<"c", "r", "o", "p", "l", "a", "n", "d", "_">> \o safe_filename(counties[k][2])
        \o <<"_">> \o extract_fips_from_iri(counties[k][1]) \o <<".", "t", "t", "l">>

NoCountyHasCode(code) ==
    \A k \in 1..Len(counties) : extract_fips_from_iri(counties[k][1]) # code

\* the characters of the labels in code point order
CodeOrder ==
    <<"\t", "\n", "\r", " ", "#", "&", "(", ")", ",", "-", ".">> \o DigitChars \o <<":">>
        \o UpperChars \o <<"_">> \o LowerChars

CodeOf(c) == CHOOSE k \in 1..Len(CodeOrder) : CodeOrder[k] = c

\* a <= b as Python compares strings
RECURSIVE StrLeq(_, _)
StrLeq(a, b) ==
    IF a = <<>> THEN TRUE
    ELSE IF b = <<>> THEN FALSE
    ELSE IF Head(a) = Head(b) THEN StrLeq(Tail(a), Tail(b))
    ELSE CodeOf(Head(a)) < CodeOf(Head(b))

SortedByLabel(cs) == \A k \in 1..(Len(cs) - 1) : StrLeq(cs[k][2], cs[k + 1][2])

NoRepeatedPair(cs) == \A j, k \in 1..Len(cs) : j < k => cs[j] # cs[k]

\* s ends with the literal 'administrativeRegion.USA.' followed by k digits
EndsWithRegionDigits(s, k) ==
    /\ k >= 1
    /\ k <= Len(s)
    /\ \A j \in (Len(s) - k + 1)..Len(s) : IsDigit(s[j])
    /\ EndsWith(SubSeq(s, 1, Len(s) - k), RegionLiteral)

\* what the claim says extract_fips_from_iri returns for s
ClaimedFips(s) ==
    IF \E k \in 1..Len(s) : EndsWithRegionDigits(s, k)
    THEN LET k == CHOOSE j \in 1..Len(s) : EndsWithRegionDigits(s, j)
         IN  SubSeq(s, Len(s) - k + 1, Len(s))
    ELSE <<"u", "n", "k", "n", "o", "w", "n">>

WellFormedSlug(r) ==
    /\ r # <<>>
    /\ Range(r) \subseteq Range(LowerChars) \cup Range(DigitChars) \cup {"_"}
    /\ r[1] # "_"
    /\ r[Len(r)] # "_"
    /\ \A k \in 1..(Len(r) - 1) : ~(r[k] = "_" /\ r[k + 1] = "_")
    /\ "&" \notin Range(r)

-----------------------------------------------------------------------------
(* The claims.                                                             *)

\* C1: in both entry modes, a returned body that is HTML-shaped (doctype at
\* its start after leading whitespace, or "<html" within its first 200
\* characters, in any letter case) is never written to an output file.
C1_HtmlNeverWritten ==
    \A n \in 1..Len(written) : ~HtmlShaped(written[n].text)

\* C2: in a sweep, an HTTPError raised for a county E is never fatal: no file
\* is written for E, E is not asked again and the loop goes on to the next
\* county, whatever the position of E; every county with an accepted document
\* that the loop has passed has had its file written, and a sweep that ends
\* has asked for every county and written every accepted one.
C2_TransportFailureIsolated ==
    mode = "sweep" =>
        /\ \A e \in 1..Len(counties) :
              HttpFailed(e) =>
                  /\ WrittenBy(e) = {}
                  /\ i > e
                  /\ Cardinality({n \in Events("construct_send") : log[n].k = e}) = 1
        /\ pc = "crashed" => log[Len(log)].ev # "http_error"
        /\ \A k \in AcceptedSet : k < i => WrittenBy(k) # {}
        /\ pc = "done" =>
              /\ Len(Sends) = Len(counties)
              /\ \A k \in AcceptedSet : WrittenBy(k) # {}

C2_Witness ==
    /\ mode = "sweep"
    /\ pc = "done"
    /\ Len(counties) = 2
    /\ HttpFailed(1)
    /\ 2 \in AcceptedSet
    /\ WrittenBy(1) = {}
    /\ WrittenBy(2) # {}

\* C3 as stated: in single-county mode, when the argument as given on the
\* command line is the code of no enumerated county, the process ends with a
\* non-zero status, issues no extraction query and writes no file.
C3_UnmatchedRawCodeExits ==
    (mode = "single" /\ Enumerated /\ NoCountyHasCode(argv1)) =>
        /\ pc \in {"match", "exited"}
        /\ pc = "exited" => exitStatus # 0
        /\ Sends = <<>>
        /\ written = <<>>
        /\ DOMAIN files = {}

\* C3 as amended: the same, for the argument stripped of the whitespace
\* around it, which is what the code compares.
C3_UnmatchedStrippedCodeExits ==
    (mode = "single" /\ Enumerated /\ NoCountyHasCode(Strip(argv1))) =>
        /\ pc \in {"match", "exited"}
        /\ pc = "exited" => exitStatus # 0
        /\ Sends = <<>>
        /\ written = <<>>
        /\ DOMAIN files = {}

C3_Witness ==
    /\ mode = "single"
    /\ pc = "exited"
    /\ exitStatus = 1
    /\ Len(counties) >= 1
    /\ NoCountyHasCode(Strip(argv1))

\* C4 as stated: whatever bindings the service returned, the list of
\* get_maine_counties() is sorted ascending by label and repeats no pair.
C4_SortedAndDistinct ==
    Enumerated => SortedByLabel(counties) /\ NoRepeatedPair(counties)

\* C4 as amended: the list holds one pair per binding, in the order of the
\* bindings; it is sorted and free of repeats exactly when the bindings are.
C4_ListFollowsBindings ==
    Enumerated =>
        /\ Len(counties) = Len(bindings)
        /\ \A k \in 1..Len(bindings) :
              counties[k] = <<bindings[k].county, bindings[k].label>>

C4_Witness ==
    /\ Enumerated
    /\ Len(counties) = 2
    /\ ~SortedByLabel(counties)

\* C5: safe_filename is idempotent, and its result is non-empty, made of
\* [a-z0-9_] only, without "_" at either end, without "__" and without "&".
C5_SlugIdempotentWellFormed ==
    /\ fn_pc \in {"slug_once", "slug_twice"} => WellFormedSlug(fn_out)
    /\ fn_pc = "slug_twice" => fn_out2 = fn_out

C5_Witness ==
    /\ fn_pc = "slug_twice"
    /\ "&" \in Range(fn_in)
    /\ "_" \in Range(fn_in)
    /\ fn_out # UnknownCounty
    /\ fn_out2 = fn_out

\* C6: extract_fips_from_iri returns 'unknown' unless the
\* identifier ends with 'administrativeRegion.USA.' and one or more digits,
\* and then returns those digits.
C6_FipsOfSuffix ==
    fn_pc = "fips_done" => fn_out = ClaimedFips(fn_in)

\* C7 as stated: after a full sweep every accepted county has a file of its
\* name holding its document, no county was written twice, and there are as
\* many files as accepted counties.
C7_OneFilePerAccepted ==
    (mode = "sweep" /\ pc = "done") =>
        LET acc == AcceptedSet
        IN  /\ \A k \in acc :
                  /\ ClaimedName(k) \in DOMAIN files
                  /\ files[ClaimedName(k)] = ReturnedText(k)
            /\ \A k \in 1..Len(counties) : Cardinality(WrittenBy(k)) <= 1
            /\ Cardinality(DOMAIN files) = Cardinality(acc)

\* C7 as amended: after a full sweep every accepted county has a file of its
\* name, holding the document of the last accepted county of that name; each
\* accepted county was written once under its name and no other county was
\* written; there are as many files as distinct names of accepted counties.
C7_LastWriterPerName ==
    (mode = "sweep" /\ pc = "done") =>
        LET acc == AcceptedSet
        IN  /\ \A k \in acc :
                  /\ ClaimedName(k) \in DOMAIN files
                  /\ LET last == CHOOSE j \in acc :
                                    /\ ClaimedName(j) = ClaimedName(k)
                                    /\ \A m \in acc :
                                          ClaimedName(m) = ClaimedName(k) => m <= j
                     IN  files[ClaimedName(k)] = ReturnedText(last)
            /\ \A k \in 1..Len(counties) :
                  Cardinality(WrittenBy(k)) = IF k \in acc THEN 1 ELSE 0
            /\ \A n \in 1..Len(written) : written[n].name = ClaimedName(written[n].k)
            /\ Len(written) = Cardinality(acc)
            /\ Cardinality(DOMAIN files) = Cardinality({ClaimedName(k) : k \in acc})

C7_Witness ==
    /\ mode = "sweep"
    /\ pc = "done"
    /\ AcceptedSet = {1, 2}
    /\ ClaimedName(1) = ClaimedName(2)
    /\ ReturnedText(1) # ReturnedText(2)

\* C8: in a sweep, every extraction call after the first comes right after
\* the pause that ends the previous county, whatever that county's outcome.
C8_PauseBeforeNextCall ==
    mode = "sweep" =>
        \A n \in Events("construct_send") :
            log[n].k > 1 => (n > 1 /\ log[n - 1].ev = "sleep")

\* C9: in a sweep, a filesystem error raised while a document is persisted
\* is caught for that county: it never ends the run.
C9_FilesystemErrorIsolated ==
    (mode = "sweep" /\ Events("fs_error") # {}) => pc # "crashed"

\* C10: one remote call at a time; the selection call has returned before
\* any extraction call is sent; in a sweep the extraction calls go out in the
\* order of the list, one per county and none twice, each after the previous
\* county's file step (write and pause, or skip) is over, and a sweep that
\* ends has called for every county.
C10_SequentialInOrder ==
    /\ inflight \in {0, 1}
    /\ Cardinality(Events("select_send")) <= 1
    /\ \A n \in Events("construct_send") :
          \E m \in Events("select_return") : m < n
    /\ mode = "single" => Len(Sends) <= 1
    /\ mode = "sweep" =>
          /\ \A k \in 1..Len(Sends) : Sends[k].k = k
          /\ Len(Sends) <= Len(counties)
          /\ \A n \in Events("construct_send") :
                log[n].k > 1 =>
                    /\ log[n - 1].k = log[n].k - 1
                    /\ log[n - 1].ev \in {"sleep", "http_error", "exception", "html_skip"}
          /\ \A n \in Events("sleep") : log[n - 1] = Event("write", log[n].k)
          /\ pc = "done" => Len(Sends) = Len(counties)

C10_Witness ==
    /\ mode = "sweep"
    /\ pc = "done"
    /\ Len(counties) = 2
    /\ Len(Sends) = 2
    /\ \E n \in Events("sleep") : log[n].k = 1
    /\ \E n \in Events("html_skip") : log[n].k = 2

====
